---- MODULE Spec2Model ----
(***************************************************************************)
(* A model of the poker WebSocket test harness                             *)
(*   src/test_websocket_server.py  (PokerServerTest: the orchestrator      *)
(*       run_all_tests, one listener task per player, auto_play)           *)
(*   src/simple_test_server.py     (test_two_players' receive loop)        *)
(*                                                                         *)
(* The orchestrator is one coroutine; every create_player spawns one       *)
(* listener task.  All tasks share one asyncio event loop, so the code     *)
(* between two awaits is one atomic step.  The server is the environment:  *)
(* it refuses connections, delivers wire messages and closes connections.  *)
(***************************************************************************)
EXTENDS Integers, Sequences, FiniteSets, TLC

(***************************************************************************)
(* Bounds of the model (the environment's budget).                         *)
(***************************************************************************)
\* what the server does in one run: connection attempts refused, wire
\* messages delivered and connections closed, together
MaxServerEvents == 2
\* the server talks (delivers, closes) only on the first MaxAudience connections
MaxAudience == 2
\* largest callAmount drawn for a turn prompt of SpecAutoPlay
MaxCallAmount == 101
\* wire messages the server delivers to player 1 of test_two_players
MaxSimpleDeliver == 3

(***************************************************************************)
(* Program constants.                                                      *)
(***************************************************************************)
\* auto_play: "elif call_amount <= 50"
SMALL_CALL_THRESHOLD == 50
\* auto_play: "elif call_amount <= 100 and min_raise > 0"
RAISE_ELIGIBLE_THRESHOLD == 100
\* test_game_flow: "seat = 3"
FIRST_FLOW_SEAT == 3
\* test_two_players: "for i in range(10)"
TWO_PLAYERS_RECEIVES == 10

\* Python's None in a seat field (TestPlayer.seat default, dict.get("seat")).
\* Seats on the wire are positive, so -1 is equal to no seat number.
None == -1

\* The keys of self.players in the order the run inserts them.
NameOrder ==
    << "TestPlayer1", "Alice", "Bob", "ManualAlice", "ManualBob",
       "Charlie", "Dave", "Eve", "Frank" >>

Names == { NameOrder[i] : i \in 1..Len(NameOrder) }

\* test_game_flow: players_to_create
players_to_create == << "Charlie", "Dave", "Eve", "Frank" >>

\* TestPlayer objects: one per successful create_player.  A name is created
\* twice only when test_seat_management re-runs test_player_registration.
AgentIds == 1..(Len(NameOrder) + 1)

(***************************************************************************)
(* JSON values.  A dict is a function from keys to values; any other JSON  *)
(* value (number, string, list, null) is a scalar with no keys.            *)
(***************************************************************************)
EmptyDict == [k \in {} |-> 0]

Obj(f) == [isObj |-> TRUE, f |-> f]

Scalar == [isObj |-> FALSE, f |-> EmptyDict]

\* dict.get(key, default) on a dict
Get(f, key, default) == IF key \in DOMAIN f THEN f[key] ELSE default

\* A wire message: text that json.loads rejects, a JSON value that is not
\* an object, or a JSON object.
InvalidJson == [json |-> "invalid", obj |-> EmptyDict]

JsonArray == [json |-> "array", obj |-> EmptyDict]

JsonObject(o) == [json |-> "object", obj |-> o]

\* json.dumps({"messageType": message_type, "data": data or {}})
Envelope(message_type, data) ==
    JsonObject([messageType |-> message_type, data |-> Obj(data)])

\* message.get("messageType", "")
MessageType(m) == Get(m.obj, "messageType", "")

\* message.get("data", {})
MessageData(m) == Get(m.obj, "data", Obj(EmptyDict))

(***************************************************************************)
(* The decision procedure of auto_play.                                    *)
(***************************************************************************)
AutoPlayWrongOrder(move_data) ==
    LET can_check == Get(move_data, "canCheck", FALSE)
        call_amount == Get(move_data, "callAmount", 0)
        min_raise == Get(move_data, "minRaiseToTotalBet", 0)
    IN  IF can_check THEN Envelope("check", EmptyDict)
        ELSE IF call_amount <= SMALL_CALL_THRESHOLD
             THEN Envelope("call", EmptyDict)
        ELSE IF call_amount < RAISE_ELIGIBLE_THRESHOLD /\ min_raise > 0
             THEN Envelope("raise", [amount |-> min_raise])
        ELSE Envelope("fold", EmptyDict)

AutoPlayAction(move_data) ==
    LET can_check == Get(move_data, "canCheck", FALSE)
        call_amount == Get(move_data, "callAmount", 0)
        min_raise == Get(move_data, "minRaiseToTotalBet", 0)
    IN  IF can_check THEN Envelope("check", EmptyDict)
        ELSE IF call_amount <= SMALL_CALL_THRESHOLD
             THEN Envelope("call", EmptyDict)
        ELSE IF call_amount <= RAISE_ELIGIBLE_THRESHOLD /\ min_raise > 0
             THEN Envelope("raise", [amount |-> min_raise])
        ELSE Envelope("fold", EmptyDict)

(***************************************************************************)
(* The state.                                                              *)
(***************************************************************************)
VARIABLES
    \* the orchestrator (run_all_tests and the test_* coroutines it awaits)
    pc,            \* the await the orchestrator is suspended at
    stack,         \* the test_* coroutines being run, innermost last
    idx,           \* the position of the for loop being run
    seat_counter,  \* test_game_flow's local "seat"
    loc1, loc2,    \* the TestPlayer locals (player, player1/alice, player2/bob)
    \* PokerServerTest
    players,       \* self.players: name -> TestPlayer (0: no such key)
    game_state,    \* self.game_state
    test_results,  \* self.test_results
    last_payload,  \* data of the last gameState message handled
    updates,       \* gameState messages handled so far
    \* TestPlayer objects and their connections, by object id
    nextId,        \* the id the next successful create_player gives
    aname,         \* player.name
    seat,          \* player.seat
    connected,     \* player.connected
    conn,          \* the state of player.websocket
    inbox,         \* wire messages received on the connection, not yet read
    sent,          \* wire messages written to the connection
    closeCalls,    \* calls of player.websocket.close()
    \* listener tasks
    lpc,           \* where listen_for_messages(player) is
    lexit,         \* how listen_for_messages(player) ended
    cur,           \* move_data of the auto_play being awaited
    \* the last send_message call: who, the connection then, the outcome
    lastSend,
    \* what the server has done so far (refusals, deliveries, closures)
    nEvents,
    \* how many messages of a broadcast the server has sent on each connection
    bpos,
    \* simple_test_server.py, test_two_players
    spc,           \* where test_two_players is
    si,            \* the loop variable i of its receive loop
    sinbox,        \* wire messages received on ws1, not yet read
    ssent,         \* wire messages written to ws1 and ws2
    sconn,         \* the state of ws1 and ws2 (opened and closed together)
    snDeliver      \* deliveries to ws1 so far

orchVars == << pc, stack, idx, seat_counter, loc1, loc2 >>

harnessVars ==
    << players, game_state, last_payload, updates, test_results >>

agentVars == << nextId, aname, seat, connected, conn, inbox, sent, closeCalls >>

listenerVars == << lpc, lexit, cur >>

envVars == << nEvents, bpos >>

simpleVars == << spc, si, sinbox, ssent, sconn, snDeliver >>

vars == << orchVars, harnessVars, agentVars, listenerVars, lastSend, envVars,
           simpleVars >>

\* the server may act once more
EnvBudgetLeft == nEvents < MaxServerEvents

NoSend == [agent |-> 0, open |-> FALSE, result |-> "none"]

\* PokerServerTest.__init__, before run_all_tests' first step
HarnessInit ==
    /\ pc = "bc_create"
    /\ stack = << "test_basic_connection" >>
    /\ idx = 1
    /\ seat_counter = FIRST_FLOW_SEAT
    /\ loc1 = 0
    /\ loc2 = 0
    /\ players = [n \in Names |-> 0]
    /\ game_state = Obj(EmptyDict)
    /\ last_payload = Obj(EmptyDict)
    /\ updates = 0
    /\ test_results = << >>
    /\ nextId = 1
    /\ aname = [a \in AgentIds |-> ""]
    /\ seat = [a \in AgentIds |-> None]
    /\ connected = [a \in AgentIds |-> FALSE]
    /\ conn = [a \in AgentIds |-> "none"]
    /\ inbox = [a \in AgentIds |-> << >>]
    /\ sent = [a \in AgentIds |-> << >>]
    /\ closeCalls = [a \in AgentIds |-> 0]
    /\ lpc = [a \in AgentIds |-> "none"]
    /\ lexit = [a \in AgentIds |-> ""]
    /\ cur = [a \in AgentIds |-> EmptyDict]
    /\ lastSend = NoSend
    /\ nEvents = 0
    /\ bpos = [a \in AgentIds |-> 0]

\* test_two_players before its connections are opened
SimpleInit ==
    /\ spc = "connect"
    /\ si = 0
    /\ sinbox = << >>
    /\ ssent = [w \in {1, 2} |-> << >>]
    /\ sconn = "none"
    /\ snDeliver = 0

Init == HarnessInit /\ SimpleInit

(***************************************************************************)
(* Scheduling.  A listener whose receive can complete (a message is        *)
(* queued, or the connection is closed) is resumed by the event loop       *)
(* before the orchestrator's sleep ends; an arrival that races the end of  *)
(* the sleep is the same as an arrival after the orchestrator's step.      *)
(***************************************************************************)
Runnable(a) == lpc[a] = "recv" /\ (inbox[a] # << >> \/ conn[a] # "open")

OrchReady == \A a \in AgentIds : ~Runnable(a)

(***************************************************************************)
(* send_message(player, message_type, data)                                *)
(***************************************************************************)
\* what the call does: returns after one write, or raises
SendOutcomeTrustsFlag(a) ==
    IF ~connected[a] THEN "NotConnected" ELSE "sent"

SendOutcome(a) ==
    IF ~connected[a] THEN "NotConnected"
    ELSE IF conn[a] # "open" THEN "ConnectionClosed"
    ELSE "sent"

\* the connection's output after the call
Wire(out, env) == Append(out, env)

SentAfter(a, env) ==
    IF SendOutcome(a) = "sent"
    THEN [sent EXCEPT ![a] = Wire(sent[a], env)]
    ELSE sent

SendRecord(a) ==
    [agent |-> a, open |-> conn[a] = "open", result |-> SendOutcome(a)]

(***************************************************************************)
(* The try/except of the test_* coroutines.                                *)
(***************************************************************************)
Top == stack[Len(stack)]

\* test_seat_management: if "Alice" not in self.players or "Bob" not in ...
NeedsRegistration == players["Alice"] = 0 \/ players["Bob"] = 0

\* where run_all_tests (or the caller) goes on after the innermost coroutine
AfterPc ==
    CASE Top = "test_basic_connection" -> "pr_create1"
      [] Top = "test_player_registration" ->
            IF Len(stack) = 1 /\ NeedsRegistration THEN "pr_create1"
            ELSE "sm_seat1"
      [] Top = "test_seat_management" -> "ma_create1"
      [] Top = "test_manual_actions" -> "gf_create"
      [] Top = "test_game_flow" -> "cleanup"

AfterStack ==
    CASE Top = "test_basic_connection" -> << "test_player_registration" >>
      [] Top = "test_player_registration" ->
            IF Len(stack) = 1 /\ NeedsRegistration
            THEN << "test_seat_management", "test_player_registration" >>
            ELSE << "test_seat_management" >>
      [] Top = "test_seat_management" -> << "test_manual_actions" >>
      [] Top = "test_manual_actions" -> << "test_game_flow" >>
      [] Top = "test_game_flow" -> << >>

Return ==
    /\ pc' = AfterPc
    /\ stack' = AfterStack
    /\ idx' = 1

\* except Exception as e: self.test_results.append(f"... failed: {e}")
Raise(err) ==
    /\ test_results' =
          Append(test_results, [test |-> Top, ok |-> FALSE, err |-> err])
    /\ Return

\* self.test_results.append("... passed")
Pass ==
    /\ test_results' =
          Append(test_results, [test |-> Top, ok |-> TRUE, err |-> ""])
    /\ Return

Goto(to) ==
    /\ pc' = to
    /\ UNCHANGED << stack, idx, test_results >>

\* the for loop goes on at position i
GotoLoop(to, i) ==
    /\ pc' = to
    /\ idx' = i
    /\ UNCHANGED << stack, test_results >>

\* one awaited send_message inside the coroutine's try block
SendThen(a, env, onSent) ==
    /\ lastSend' = SendRecord(a)
    /\ sent' = SentAfter(a, env)
    /\ IF SendOutcome(a) = "sent" THEN onSent ELSE Raise(SendOutcome(a))

SendStep(a, env, to) == SendThen(a, env, Goto(to))

\* self.players[name] of a missing key
KeyError ==
    /\ Raise("KeyError")
    /\ UNCHANGED << lastSend, sent >>

(***************************************************************************)
(* create_player(player_name)                                              *)
(***************************************************************************)
\* the TestPlayer object the call makes
ReusePlayerId(name) == IF players[name] # 0 THEN players[name] ELSE nextId

NewPlayerId(name) == nextId

\* websockets.connect succeeded: the object is stored and its listener spawned
CreateOk(name) ==
    LET p == NewPlayerId(name)
    IN  /\ nextId' = nextId + 1
        /\ aname' = [aname EXCEPT ![p] = name]
        /\ conn' = [conn EXCEPT ![p] = "open"]
        /\ connected' = [connected EXCEPT ![p] = TRUE]
        /\ players' = [players EXCEPT ![name] = p]
        /\ lpc' = [lpc EXCEPT ![p] = "recv"]
        /\ UNCHANGED << seat, inbox, sent, closeCalls, lexit, cur, game_state,
                        last_payload, updates,
                        lastSend, envVars, simpleVars >>

\* websockets.connect raised: nothing is stored, the exception is re-raised
CreateRefused ==
    /\ EnvBudgetLeft
    /\ nEvents' = nEvents + 1
    /\ Raise("ConnectionRefused")
    /\ UNCHANGED << seat_counter, loc1, loc2, players, game_state,
                    last_payload, updates, agentVars,
                    listenerVars, lastSend, bpos, simpleVars >>

\* await player.websocket.close()
CloseCall(a) ==
    /\ closeCalls' = [closeCalls EXCEPT ![a] = @ + 1]
    /\ conn' = [conn EXCEPT ![a] = IF @ = "open" THEN "closedLocal" ELSE @]

(***************************************************************************)
(* test_basic_connection                                                   *)
(***************************************************************************)
BasicCreate ==
    /\ pc = "bc_create"
    /\ OrchReady
    /\ \/ /\ CreateOk("TestPlayer1")
          /\ loc1' = nextId
          /\ Goto("bc_close")
          /\ UNCHANGED << seat_counter, loc2 >>
       \/ CreateRefused

BasicClose ==
    /\ pc = "bc_close"
    /\ OrchReady
    /\ CloseCall(loc1)
    /\ Pass
    /\ UNCHANGED << seat_counter, loc1, loc2, players, game_state,
                    last_payload, updates, nextId,
                    aname, seat, connected, inbox, sent, listenerVars,
                    lastSend, envVars, simpleVars >>

(***************************************************************************)
(* register_player, take_seat, start_game: one send_message each.          *)
(***************************************************************************)
RegisterEnvelope(a) == Envelope("registerPlayer", [name |-> aname[a]])

TakeSeatEnvelope(s) == Envelope("takeSeat", [seat |-> s])

\* a take_seat that keeps one seat for the whole harness, not per player
SeatAfterShared(a, s) ==
    IF SendOutcome(a) = "sent"
    THEN [b \in AgentIds |-> IF b < nextId THEN s ELSE seat[b]]
    ELSE seat

\* take_seat: "player.seat = seat" runs only when send_message returned
SeatAfter(a, s) ==
    IF SendOutcome(a) = "sent" THEN [seat EXCEPT ![a] = s] ELSE seat

\* what an orchestrator step that only sends leaves alone
SendFrame ==
    UNCHANGED << players, game_state, last_payload, updates, nextId, aname,
                 connected, conn, inbox, closeCalls, listenerVars, envVars,
                 simpleVars >>

(***************************************************************************)
(* test_player_registration                                                *)
(***************************************************************************)
RegistrationCreate1 ==
    /\ pc = "pr_create1"
    /\ OrchReady
    /\ \/ /\ CreateOk("Alice")
          /\ loc1' = nextId
          /\ Goto("pr_create2")
          /\ UNCHANGED << seat_counter, loc2 >>
       \/ CreateRefused

RegistrationCreate2 ==
    /\ pc = "pr_create2"
    /\ OrchReady
    /\ \/ /\ CreateOk("Bob")
          /\ loc2' = nextId
          /\ Goto("pr_reg1")
          /\ UNCHANGED << seat_counter, loc1 >>
       \/ CreateRefused

RegistrationRegister1 ==
    /\ pc = "pr_reg1"
    /\ OrchReady
    /\ SendStep(loc1, RegisterEnvelope(loc1), "pr_reg2")
    /\ SendFrame
    /\ UNCHANGED << seat_counter, loc1, loc2, seat >>

RegistrationRegister2 ==
    /\ pc = "pr_reg2"
    /\ OrchReady
    /\ SendStep(loc2, RegisterEnvelope(loc2), "pr_done")
    /\ SendFrame
    /\ UNCHANGED << seat_counter, loc1, loc2, seat >>

RegistrationDone ==
    /\ pc = "pr_done"
    /\ OrchReady
    /\ Pass
    /\ UNCHANGED << seat_counter, loc1, loc2, players, game_state,
                    last_payload, updates, agentVars,
                    listenerVars, lastSend, envVars, simpleVars >>

(***************************************************************************)
(* test_seat_management                                                    *)
(***************************************************************************)
SeatStep(name, s, to) ==
    /\ OrchReady
    /\ IF players[name] = 0
       THEN KeyError /\ UNCHANGED seat
       ELSE /\ SendStep(players[name], TakeSeatEnvelope(s), to)
            /\ seat' = SeatAfter(players[name], s)
    /\ SendFrame
    /\ UNCHANGED << seat_counter, loc1, loc2 >>

SeatAlice ==
    /\ pc = "sm_seat1"
    /\ SeatStep("Alice", 1, "sm_seat2")

SeatBob ==
    /\ pc = "sm_seat2"
    /\ SeatStep("Bob", 2, "sm_done")

SeatDone ==
    /\ pc = "sm_done"
    /\ OrchReady
    /\ Pass
    /\ UNCHANGED << seat_counter, loc1, loc2, players, game_state,
                    last_payload, updates, agentVars,
                    listenerVars, lastSend, envVars, simpleVars >>

(***************************************************************************)
(* test_manual_actions                                                     *)
(***************************************************************************)
ManualCreate1 ==
    /\ pc = "ma_create1"
    /\ OrchReady
    /\ \/ /\ CreateOk("ManualAlice")
          /\ loc1' = nextId
          /\ Goto("ma_create2")
          /\ UNCHANGED << seat_counter, loc2 >>
       \/ CreateRefused

ManualCreate2 ==
    /\ pc = "ma_create2"
    /\ OrchReady
    /\ \/ /\ CreateOk("ManualBob")
          /\ loc2' = nextId
          /\ Goto("ma_reg1")
          /\ UNCHANGED << seat_counter, loc1 >>
       \/ CreateRefused

ManualRegister1 ==
    /\ pc = "ma_reg1"
    /\ OrchReady
    /\ SendStep(loc1, RegisterEnvelope(loc1), "ma_reg2")
    /\ SendFrame
    /\ UNCHANGED << seat_counter, loc1, loc2, seat >>

ManualRegister2 ==
    /\ pc = "ma_reg2"
    /\ OrchReady
    /\ SendStep(loc2, RegisterEnvelope(loc2), "ma_seat1")
    /\ SendFrame
    /\ UNCHANGED << seat_counter, loc1, loc2, seat >>

ManualSeat1 ==
    /\ pc = "ma_seat1"
    /\ OrchReady
    /\ SendStep(loc1, TakeSeatEnvelope(1), "ma_seat2")
    /\ seat' = SeatAfter(loc1, 1)
    /\ SendFrame
    /\ UNCHANGED << seat_counter, loc1, loc2 >>

ManualSeat2 ==
    /\ pc = "ma_seat2"
    /\ OrchReady
    /\ SendStep(loc2, TakeSeatEnvelope(2), "ma_start")
    /\ seat' = SeatAfter(loc2, 2)
    /\ SendFrame
    /\ UNCHANGED << seat_counter, loc1, loc2 >>

ManualStart ==
    /\ pc = "ma_start"
    /\ OrchReady
    /\ SendStep(loc1, Envelope("startGame", EmptyDict), "ma_check")
    /\ SendFrame
    /\ UNCHANGED << seat_counter, loc1, loc2, seat >>

\* the inner try: a failed send_action is logged and the test goes on to
\* append its "completed" entry
ManualAction(a, env, to) ==
    /\ OrchReady
    /\ lastSend' = SendRecord(a)
    /\ sent' = SentAfter(a, env)
    /\ IF SendOutcome(a) = "sent" THEN Goto(to) ELSE Goto("ma_done")
    /\ SendFrame
    /\ UNCHANGED << seat_counter, loc1, loc2, seat >>

ManualCheck ==
    /\ pc = "ma_check"
    /\ ManualAction(loc1, Envelope("check", EmptyDict), "ma_raise")

ManualRaise ==
    /\ pc = "ma_raise"
    /\ ManualAction(loc2, Envelope("raise", [amount |-> 20]), "ma_call")

ManualCall ==
    /\ pc = "ma_call"
    /\ ManualAction(loc1, Envelope("call", EmptyDict), "ma_done")

ManualDone ==
    /\ pc = "ma_done"
    /\ OrchReady
    /\ Pass
    /\ UNCHANGED << seat_counter, loc1, loc2, players, game_state,
                    last_payload, updates, agentVars,
                    listenerVars, lastSend, envVars, simpleVars >>

(***************************************************************************)
(* test_game_flow                                                          *)
(***************************************************************************)
\* the first loop goes on to its next name, or the second loop starts
NextCreate ==
    IF idx < Len(players_to_create)
    THEN GotoLoop("gf_create", idx + 1)
    ELSE GotoLoop("gf_seat", 1)

\* the second loop goes on to its next name, or start_game is reached
NextSeat ==
    IF idx < Len(players_to_create)
    THEN GotoLoop("gf_seat", idx + 1)
    ELSE GotoLoop("gf_start", 1)

FlowCreate ==
    /\ pc = "gf_create"
    /\ OrchReady
    /\ IF players[players_to_create[idx]] # 0
       THEN /\ NextCreate
            /\ UNCHANGED << seat_counter, loc1, loc2, players, game_state,
                            last_payload, updates,
                            agentVars, listenerVars, lastSend, envVars,
                            simpleVars >>
       ELSE \/ /\ CreateOk(players_to_create[idx])
               /\ loc1' = nextId
               /\ Goto("gf_reg")
               /\ UNCHANGED << seat_counter, loc2 >>
            \/ CreateRefused

FlowRegister ==
    /\ pc = "gf_reg"
    /\ OrchReady
    /\ SendThen(loc1, RegisterEnvelope(loc1), NextCreate)
    /\ SendFrame
    /\ UNCHANGED << seat_counter, loc1, loc2, seat >>

FlowSeat ==
    /\ pc = "gf_seat"
    /\ OrchReady
    /\ LET p == players[players_to_create[idx]]
       IN  IF p # 0 /\ seat[p] = None
           THEN /\ SendThen(p, TakeSeatEnvelope(seat_counter), NextSeat)
                /\ seat' = SeatAfter(p, seat_counter)
                /\ seat_counter' = IF SendOutcome(p) = "sent"
                                   THEN seat_counter + 1 ELSE seat_counter
           ELSE /\ NextSeat
                /\ UNCHANGED << seat, seat_counter, lastSend, sent >>
    /\ SendFrame
    /\ UNCHANGED << loc1, loc2 >>

FlowStart ==
    /\ pc = "gf_start"
    /\ OrchReady
    /\ IF players["Alice"] = 0
       THEN KeyError
       ELSE SendStep(players["Alice"], Envelope("startGame", EmptyDict),
                     "gf_done")
    /\ SendFrame
    /\ UNCHANGED << seat_counter, loc1, loc2, seat >>

FlowDone ==
    /\ pc = "gf_done"
    /\ OrchReady
    /\ Pass
    /\ UNCHANGED << seat_counter, loc1, loc2, players, game_state,
                    last_payload, updates, agentVars,
                    listenerVars, lastSend, envVars, simpleVars >>

(***************************************************************************)
(* cleanup, from run_all_tests' finally block: one step per entry of       *)
(* self.players.values()                                                   *)
(***************************************************************************)
\* "if player.connected and player.websocket": the socket is set whenever
\* the object is in self.players
CleanupCloses(a) == a # 0 /\ connected[a]

Cleanup ==
    /\ pc = "cleanup"
    /\ OrchReady
    /\ LET p == players[NameOrder[idx]]
       IN  IF CleanupCloses(p)
           THEN CloseCall(p)
           ELSE UNCHANGED << closeCalls, conn >>
    /\ IF idx < Len(NameOrder)
       THEN GotoLoop("cleanup", idx + 1)
       ELSE GotoLoop("done", 1)
    /\ UNCHANGED << seat_counter, loc1, loc2, players, game_state,
                    last_payload, updates, nextId,
                    aname, seat, connected, inbox, sent, listenerVars,
                    lastSend, envVars, simpleVars >>

Orchestrator ==
    \/ BasicCreate \/ BasicClose
    \/ RegistrationCreate1 \/ RegistrationCreate2
    \/ RegistrationRegister1 \/ RegistrationRegister2 \/ RegistrationDone
    \/ SeatAlice \/ SeatBob \/ SeatDone
    \/ ManualCreate1 \/ ManualCreate2 \/ ManualRegister1 \/ ManualRegister2
    \/ ManualSeat1 \/ ManualSeat2 \/ ManualStart
    \/ ManualCheck \/ ManualRaise \/ ManualCall \/ ManualDone
    \/ FlowCreate \/ FlowRegister \/ FlowSeat \/ FlowStart \/ FlowDone
    \/ Cleanup

(***************************************************************************)
(* listen_for_messages(player) and handle_server_message                   *)
(***************************************************************************)
\* self.game_state = data
MergeSnapshot(old, data) ==
    IF old.isObj /\ data.isObj THEN Obj(data.f @@ old.f) ELSE data

\* a replacement with an ordering check: a payload whose pot is smaller than
\* the stored one is taken to be older and dropped
KeepNewerSnapshot(old, data) ==
    IF /\ old.isObj
       /\ data.isObj
       /\ "pot" \in DOMAIN old.f
       /\ "pot" \in DOMAIN data.f
       /\ data.f.pot < old.f.pot
    THEN old
    ELSE data

UpdateSnapshot(old, data) == data

\* "if seat == player.seat" with seat = data.get("seat")
AddressedTo(a, data) == Get(data.f, "seat", None) = seat[a]

\* How the handling of wire message m by the listener of a ends:
\*   "error"      an exception other than ConnectionClosed left the loop
\*                (json.loads on invalid text; .get on a value that is no dict)
\*   "auto_play"  handle_server_message awaits auto_play
\*   "continue"   the loop waits for the next message
Handling(a, m) ==
    IF m.json # "object" THEN "error"
    ELSE LET data == MessageData(m)
         IN  CASE MessageType(m) = "gameState" ->
                      IF data.isObj THEN "continue" ELSE "error"
               [] MessageType(m) = "onmove" ->
                      IF ~data.isObj THEN "error"
                      ELSE IF AddressedTo(a, data) THEN "auto_play"
                      ELSE "continue"
               [] OTHER -> "continue"

\* m reaches the branch: if message_type == "gameState"
IsGameState(m) == m.json = "object" /\ MessageType(m) = "gameState"

\* a handler that stores the data of every message, whatever its type
SnapshotAfterAnyType(m) ==
    IF m.json = "object" THEN MessageData(m) ELSE game_state

\* self.game_state after the handling of m
SnapshotAfter(m) ==
    IF IsGameState(m)
    THEN UpdateSnapshot(game_state, MessageData(m))
    ELSE game_state

\* handle_server_message(player, json.loads(m)) up to its next await, with
\* the except clauses of listen_for_messages
Handle(a, m) ==
    LET h == Handling(a, m)
    IN  /\ game_state' = SnapshotAfter(m)
        /\ last_payload' = IF IsGameState(m) THEN MessageData(m)
                           ELSE last_payload
        /\ updates' = IF IsGameState(m) THEN updates + 1 ELSE updates
        /\ lpc' = [lpc EXCEPT ![a] =
                      CASE h = "error" -> "done"
                        [] h = "auto_play" -> "think"
                        [] OTHER -> "recv"]
        /\ lexit' = [lexit EXCEPT ![a] = IF h = "error" THEN "error" ELSE @]
        /\ cur' = [cur EXCEPT ![a] =
                      IF h = "auto_play" THEN MessageData(m).f ELSE @]

\* async for message in player.websocket: the next queued message is read
\* and handled
ListenerReceive(a) ==
    /\ lpc[a] = "recv"
    /\ inbox[a] # << >>
    /\ inbox' = [inbox EXCEPT ![a] = Tail(@)]
    /\ Handle(a, Head(inbox[a]))
    /\ UNCHANGED << orchVars, players, test_results, nextId, aname, seat,
                    connected, conn, sent, closeCalls, lastSend, envVars,
                    simpleVars >>

\* auto_play after its sleep: one send_action; an exception of the send
\* leaves handle_server_message and the loop
AutoPlaySend(a) ==
    /\ lpc[a] = "think"
    /\ lastSend' = SendRecord(a)
    /\ sent' = SentAfter(a, AutoPlayAction(cur[a]))
    /\ lpc' = [lpc EXCEPT ![a] =
                  IF SendOutcome(a) = "sent" THEN "recv" ELSE "done"]
    /\ lexit' = [lexit EXCEPT ![a] =
                    CASE SendOutcome(a) = "sent" -> @
                      [] SendOutcome(a) = "ConnectionClosed" ->
                             "ConnectionClosed"
                      [] OTHER -> "error"]
    /\ connected' = [connected EXCEPT ![a] =
                        IF SendOutcome(a) = "ConnectionClosed" THEN FALSE
                        ELSE @]
    /\ cur' = [cur EXCEPT ![a] = EmptyDict]
    /\ UNCHANGED << orchVars, harnessVars, nextId, aname, seat, conn, inbox,
                    closeCalls, envVars, simpleVars >>

\* a listener that a normal closure does not wake: only an abnormal one
\* ends its receive
ListenerClosedOnErrorOnly(a) ==
    /\ lpc[a] = "recv"
    /\ inbox[a] = << >>
    /\ conn[a] = "closedErr"
    /\ lpc' = [lpc EXCEPT ![a] = "done"]
    /\ lexit' = [lexit EXCEPT ![a] = "ConnectionClosed"]
    /\ connected' = [connected EXCEPT ![a] = FALSE]
    /\ UNCHANGED << orchVars, harnessVars, nextId, aname, seat, conn, inbox,
                    sent, closeCalls, cur, lastSend, envVars, simpleVars >>

\* a listener that clears the flag of every player when it ends
ListenerClosedClearsAll(a) ==
    /\ lpc[a] = "recv"
    /\ inbox[a] = << >>
    /\ conn[a] \in {"closedLocal", "closedOK", "closedErr"}
    /\ lpc' = [lpc EXCEPT ![a] = "done"]
    /\ lexit' = [lexit EXCEPT ![a] =
                    IF conn[a] = "closedErr" THEN "ConnectionClosed" ELSE "end"]
    /\ connected' = [b \in AgentIds |->
                        IF conn[a] = "closedErr" THEN FALSE ELSE connected[b]]
    /\ UNCHANGED << orchVars, harnessVars, nextId, aname, seat, conn, inbox,
                    sent, closeCalls, cur, lastSend, envVars, simpleVars >>

\* the connection is closed and every message received before was read:
\* the iteration ends (normal closure) or raises ConnectionClosed
ListenerClosed(a) ==
    /\ lpc[a] = "recv"
    /\ inbox[a] = << >>
    /\ conn[a] \in {"closedLocal", "closedOK", "closedErr"}
    /\ lpc' = [lpc EXCEPT ![a] = "done"]
    /\ lexit' = [lexit EXCEPT ![a] =
                    IF conn[a] = "closedErr" THEN "ConnectionClosed" ELSE "end"]
    /\ connected' = [connected EXCEPT ![a] =
                        IF conn[a] = "closedErr" THEN FALSE ELSE @]
    /\ UNCHANGED << orchVars, harnessVars, nextId, aname, seat, conn, inbox,
                    sent, closeCalls, cur, lastSend, envVars, simpleVars >>

(***************************************************************************)
(* The server.                                                             *)
(***************************************************************************)
SnapshotA == [players |-> {1, 2}, pot |-> 10, street |-> "preflop"]

SnapshotB == [pot |-> 30]

\* the wire messages the server of the model sends
ServerMessages ==
    { InvalidJson,
      JsonArray,
      JsonObject([data |-> Obj(EmptyDict)]),
      JsonObject([messageType |-> "gameState", data |-> Obj(SnapshotA)]),
      JsonObject([messageType |-> "gameState", data |-> Obj(SnapshotB)]),
      JsonObject([messageType |-> "gameState", data |-> Scalar]),
      JsonObject([messageType |-> "onmove", data |-> Scalar]),
      JsonObject([messageType |-> "onmove",
                  data |-> Obj([seat |-> 1, canCheck |-> FALSE,
                                callAmount |-> 75,
                                minRaiseToTotalBet |-> 150])]),
      JsonObject([messageType |-> "onmove",
                  data |-> Obj([seat |-> 2, canCheck |-> TRUE,
                                callAmount |-> 0,
                                minRaiseToTotalBet |-> 0])]),
      JsonObject([messageType |-> "onmove", data |-> Obj([canCheck |-> TRUE])]),
      JsonObject([messageType |-> "handWinnings", data |-> Obj([pot |-> 30])]),
      JsonObject([messageType |-> "chat", data |-> Obj(EmptyDict)]) }

Audience == { a \in AgentIds : a <= MaxAudience }

\* A message arrives on the connection of a.  A listener suspended in its
\* receive with nothing queued is resumed by the arrival and handles the
\* message at once (nothing else reads the queue); a listener busy with an
\* earlier message finds it queued; a listener that has ended never reads
\* it, so what arrives then is not recorded.
Arrive(a, m) ==
    IF lpc[a] = "recv" /\ inbox[a] = << >>
    THEN Handle(a, m) /\ UNCHANGED inbox
    ELSE /\ inbox' = IF lpc[a] = "done" THEN inbox
                     ELSE [inbox EXCEPT ![a] = Append(@, m)]
         /\ UNCHANGED << game_state, last_payload, updates, listenerVars >>

Deliver(a, m) ==
    /\ conn[a] = "open"
    /\ EnvBudgetLeft
    /\ nEvents' = nEvents + 1
    /\ Arrive(a, m)
    /\ UNCHANGED << orchVars, players, test_results, nextId, aname, seat,
                    connected, conn, sent, closeCalls, lastSend, bpos,
                    simpleVars >>

\* the server closes the connection of a: a normal closure, or an abnormal one
RemoteClose(a, how) ==
    /\ conn[a] = "open"
    /\ EnvBudgetLeft
    /\ nEvents' = nEvents + 1
    /\ conn' = [conn EXCEPT ![a] = how]
    /\ UNCHANGED << orchVars, harnessVars, nextId, aname, seat, connected,
                    inbox, sent, closeCalls, listenerVars, lastSend, bpos,
                    simpleVars >>

Listener == \E a \in AgentIds :
    ListenerReceive(a) \/ AutoPlaySend(a) \/ ListenerClosed(a)

Server ==
    \/ \E a \in Audience, m \in ServerMessages : Deliver(a, m)
    \/ \E a \in Audience, how \in {"closedOK", "closedErr"} :
          RemoteClose(a, how)

Next == Orchestrator \/ Listener \/ Server

Spec == Init /\ [][Next]_vars

(***************************************************************************)
(* auto_play on every turn prompt.  The run starts in the state of         *)
(* run_all_tests in which test_seat_management has seated Alice at 1 and   *)
(* is about to seat Bob, and a turn prompt for seat 1 has just arrived on  *)
(* Alice's connection: her listener is in auto_play's sleep.               *)
(***************************************************************************)
CanCheckFields == { EmptyDict, [canCheck |-> TRUE], [canCheck |-> FALSE] }

CallAmountFields ==
    { EmptyDict } \cup { [callAmount |-> n] : n \in 0..MaxCallAmount }

MinRaiseFields ==
    { EmptyDict, [minRaiseToTotalBet |-> 0], [minRaiseToTotalBet |-> 1],
      [minRaiseToTotalBet |-> 150] }

\* the data of the onmove messages for seat s, fields present or not
TurnPrompts(s) ==
    { [seat |-> s] @@ c @@ k @@ r :
        c \in CanCheckFields, k \in CallAmountFields, r \in MinRaiseFields }

\* the harness when Alice's listener has read the prompt move_data
AliceInAutoPlay(move_data) ==
    /\ pc = "sm_seat2"
    /\ stack = << "test_seat_management" >>
    /\ idx = 1
    /\ seat_counter = FIRST_FLOW_SEAT
    /\ loc1 = 2
    /\ loc2 = 3
    /\ players = [n \in Names |->
                     CASE n = "TestPlayer1" -> 1
                       [] n = "Alice" -> 2
                       [] n = "Bob" -> 3
                       [] OTHER -> 0]
    /\ game_state = Obj(EmptyDict)
    /\ last_payload = Obj(EmptyDict)
    /\ updates = 0
    /\ test_results =
          << [test |-> "test_basic_connection", ok |-> TRUE, err |-> ""],
             [test |-> "test_player_registration", ok |-> TRUE, err |-> ""] >>
    /\ nextId = 4
    /\ aname = [a \in AgentIds |->
                   CASE a = 1 -> "TestPlayer1"
                     [] a = 2 -> "Alice"
                     [] a = 3 -> "Bob"
                     [] OTHER -> ""]
    /\ seat = [a \in AgentIds |-> IF a = 2 THEN 1 ELSE None]
    /\ connected = [a \in AgentIds |-> a <= 3]
    /\ conn = [a \in AgentIds |->
                  CASE a = 1 -> "closedLocal"
                    [] a \in {2, 3} -> "open"
                    [] OTHER -> "none"]
    /\ inbox = [a \in AgentIds |-> << >>]
    /\ sent = [a \in AgentIds |->
                  CASE a = 2 -> << RegisterEnvelope(2), TakeSeatEnvelope(1) >>
                    [] a = 3 -> << RegisterEnvelope(3) >>
                    [] OTHER -> << >>]
    /\ closeCalls = [a \in AgentIds |-> IF a = 1 THEN 1 ELSE 0]
    /\ lpc = [a \in AgentIds |->
                 CASE a = 1 -> "done"
                   [] a = 2 -> "think"
                   [] a = 3 -> "recv"
                   [] OTHER -> "none"]
    /\ lexit = [a \in AgentIds |-> IF a = 1 THEN "end" ELSE ""]
    /\ cur = [a \in AgentIds |-> IF a = 2 THEN move_data ELSE EmptyDict]
    /\ lastSend = [agent |-> 2, open |-> TRUE, result |-> "sent"]
    /\ nEvents = 1
    /\ bpos = [a \in AgentIds |-> 0]

AutoPlayInit ==
    /\ \E move_data \in TurnPrompts(1) : AliceInAutoPlay(move_data)
    /\ SimpleInit

AutoPlayNext == \E a \in AgentIds : AutoPlaySend(a)

SpecAutoPlay == AutoPlayInit /\ [][AutoPlayNext]_vars

(***************************************************************************)
(* simple_test_server.py, test_two_players: two connections ws1 (Alice,    *)
(* seat 1) and ws2 (Bob, seat 2), the requests on them, then a loop of at  *)
(* most TWO_PLAYERS_RECEIVES receives on ws1, each with a timeout.         *)
(***************************************************************************)
SimpleMessages ==
    { InvalidJson,
      JsonObject([messageType |-> "gameState", data |-> Obj(SnapshotA)]),
      JsonObject([messageType |-> "gameState", data |-> Scalar]),
      JsonObject([messageType |-> "onmove",
                  data |-> Obj([seat |-> 1, canCheck |-> TRUE])]),
      JsonObject([messageType |-> "onmove",
                  data |-> Obj([seat |-> 2, canCheck |-> TRUE])]),
      JsonObject([messageType |-> "onmove",
                  data |-> Obj([seat |-> 2, canCheck |-> FALSE,
                                callAmount |-> 75,
                                minRaiseToTotalBet |-> 150])]),
      JsonObject([messageType |-> "handWinnings", data |-> Obj([pot |-> 30])]) }

SimpleFrame == UNCHANGED << orchVars, harnessVars, agentVars, listenerVars,
                            lastSend, envVars >>

\* async with websockets.connect(...) as ws1, websockets.connect(...) as ws2
SimpleConnect ==
    /\ spc = "connect"
    /\ \/ spc' = "register1" /\ sconn' = "open"
       \/ spc' = "failed" /\ sconn' = sconn
    /\ UNCHANGED << si, sinbox, ssent, snDeliver >>
    /\ SimpleFrame

\* await ws.send(json.dumps(env)) at the step "at"; an exception leaves the
\* async with block, which closes both connections
SimpleSend(at, w, env, to) ==
    /\ spc = at
    /\ IF sconn = "open"
       THEN /\ ssent' = [ssent EXCEPT ![w] = Append(@, env)]
            /\ spc' = to
            /\ sconn' = sconn
       ELSE /\ ssent' = ssent
            /\ spc' = "failed"
            /\ sconn' = "closedLocal"
    /\ UNCHANGED << si, sinbox, snDeliver >>
    /\ SimpleFrame

SimpleRegister1 ==
    SimpleSend("register1", 1,
               Envelope("registerPlayer", [name |-> "Alice"]), "register2")

SimpleRegister2 ==
    SimpleSend("register2", 2,
               Envelope("registerPlayer", [name |-> "Bob"]), "seat1")

SimpleSeat1 ==
    SimpleSend("seat1", 1, Envelope("takeSeat", [seat |-> 1]), "seat2")

SimpleSeat2 ==
    SimpleSend("seat2", 2, Envelope("takeSeat", [seat |-> 2]), "start")

SimpleStart ==
    SimpleSend("start", 1, Envelope("startGame", EmptyDict), "listen")

\* what the body of the receive loop does with the message m:
\*   "error"     an exception other than TimeoutError
\*   "check"     it sends a check on ws1
\*   "continue"  nothing
SimpleHandling(m) ==
    IF m.json # "object" THEN "error"
    ELSE LET data == MessageData(m)
         IN  CASE MessageType(m) = "gameState" ->
                      IF data.isObj THEN "continue" ELSE "error"
               [] MessageType(m) = "onmove" ->
                      IF ~data.isObj THEN "error"
                      ELSE IF Get(data.f, "canCheck", FALSE) THEN "check"
                      ELSE "continue"
               [] OTHER -> "continue"

\* for i in range(10); the return after the loop leaves the async with block
SimpleLoopEnd(i) ==
    IF i < TWO_PLAYERS_RECEIVES
    THEN spc' = "listen" /\ sconn' = sconn
    ELSE spc' = "completed" /\ sconn' = "closedLocal"

\* one pass of the loop on a message that arrived in time
SimpleReceive ==
    /\ spc = "listen"
    /\ sinbox # << >>
    /\ sinbox' = Tail(sinbox)
    /\ si' = si + 1
    /\ LET handling == SimpleHandling(Head(sinbox))
       IN  CASE handling = "error" ->
                    /\ spc' = "failed"
                    /\ sconn' = "closedLocal"
                    /\ ssent' = ssent
             [] handling = "check" /\ sconn = "open" ->
                    /\ ssent' = [ssent EXCEPT
                                    ![1] = Append(@, Envelope("check",
                                                              EmptyDict))]
                    /\ SimpleLoopEnd(si + 1)
             [] handling = "check" /\ sconn # "open" ->
                    /\ spc' = "failed"
                    /\ sconn' = "closedLocal"
                    /\ ssent' = ssent
             [] OTHER ->
                    /\ ssent' = ssent
                    /\ SimpleLoopEnd(si + 1)
    /\ UNCHANGED snDeliver
    /\ SimpleFrame

\* asyncio.TimeoutError: nothing arrived within the second
SimpleTimeout ==
    /\ spc = "listen"
    /\ sinbox = << >>
    /\ sconn = "open"
    /\ spc' = "completed"
    /\ sconn' = "closedLocal"
    /\ UNCHANGED << si, sinbox, ssent, snDeliver >>
    /\ SimpleFrame

\* ws1.recv() on a closed connection with nothing queued: ConnectionClosed
SimpleRecvClosed ==
    /\ spc = "listen"
    /\ sinbox = << >>
    /\ sconn = "closedRemote"
    /\ spc' = "failed"
    /\ sconn' = "closedLocal"
    /\ UNCHANGED << si, sinbox, ssent, snDeliver >>
    /\ SimpleFrame

\* the server sends m on ws1
SimpleDeliver(m) ==
    /\ sconn = "open"
    /\ snDeliver < MaxSimpleDeliver
    /\ snDeliver' = snDeliver + 1
    /\ sinbox' = Append(sinbox, m)
    /\ UNCHANGED << spc, si, ssent, sconn >>
    /\ SimpleFrame

\* the server closes the connections
SimpleRemoteClose ==
    /\ sconn = "open"
    /\ sconn' = "closedRemote"
    /\ UNCHANGED << spc, si, sinbox, ssent, snDeliver >>
    /\ SimpleFrame

SimpleScript ==
    \/ SimpleConnect
    \/ SimpleRegister1
    \/ SimpleRegister2
    \/ SimpleSeat1
    \/ SimpleSeat2
    \/ SimpleStart
    \/ SimpleReceive
    \/ SimpleTimeout
    \/ SimpleRecvClosed

SimpleServer ==
    \/ \E m \in SimpleMessages : SimpleDeliver(m)
    \/ SimpleRemoteClose

SimpleNext == SimpleScript \/ SimpleServer

SpecSimple == Init /\ [][SimpleNext]_vars

(***************************************************************************)
(* Claims.                                                                 *)
(***************************************************************************)
TurnActions == {"check", "call", "raise", "fold"}

Last(q) == q[Len(q)]

\* C2 (as stated): every turn prompt addressed to an agent is answered by
\* exactly one action envelope before the listener reads on: whenever an
\* auto_play ends, one turn action has been written to the agent's
\* connection and the listener is back in its receive.
C2_ExactlyOneActionPerPrompt ==
    [][\A a \in AgentIds :
          (seat[a] # None /\ lpc[a] = "think" /\ lpc'[a] # "think") =>
              /\ Len(sent'[a]) = Len(sent[a]) + 1
              /\ MessageType(Last(sent'[a])) \in TurnActions
              /\ lpc'[a] = "recv"]_vars

\* C2 (amended): an auto_play whose connection is still open when its delay
\* ends writes exactly one turn action, the one auto_play chooses for the
\* prompt, and the listener reads on; one whose connection was closed
\* meanwhile writes nothing and ends the listener with connected false.
\* While the auto_play is awaited the listener reads no message and
\* nothing else is written to the connection by it.
C2_OneActionWhileOpen ==
    [][\A a \in AgentIds :
          /\ (lpc[a] = "think" /\ lpc'[a] # "think") =>
                IF conn[a] = "open"
                THEN /\ sent'[a] = Append(sent[a], AutoPlayAction(cur[a]))
                     /\ MessageType(Last(sent'[a])) \in TurnActions
                     /\ lpc'[a] = "recv"
                ELSE /\ sent'[a] = sent[a]
                     /\ lpc'[a] = "done"
                     /\ ~connected'[a]
          /\ (lpc[a] = "think" /\ lpc'[a] = "think") =>
                Len(inbox'[a]) >= Len(inbox[a])]_vars

\* C2 witness: the agent seated at 1 has answered the prompt (75 to call,
\* minimum raise 150) with its raise to 150 and is receiving again.
C2_Witness ==
    \E a \in AgentIds :
        /\ seat[a] = 1
        /\ lpc[a] = "recv"
        /\ sent[a] # << >>
        /\ Last(sent[a]) = Envelope("raise", [amount |-> 150])

\* C4: after the k-th gameState message is handled, self.game_state is
\* exactly the data of that message.
C4_SnapshotIsLastPayload == game_state = last_payload

\* C4 witness: a second gameState message was handled, its data lacks the
\* players and street fields, and so does the snapshot.
C4_Witness ==
    /\ updates = 2
    /\ last_payload = Obj(SnapshotB)
    /\ game_state = Obj(SnapshotB)

\* C5: a malformed message never ends a listener: as long as an agent's
\* connection is open its listener has not left its loop.
C5_ListenerSurvivesMalformed ==
    \A a \in AgentIds : conn[a] = "open" => lpc[a] # "done"

\* C6: when run_all_tests has finished, every connection create_player
\* opened is closed.
C6_AllClosedAtEnd ==
    pc = "done" => \A a \in AgentIds : conn[a] # "open"

\* C7: a listener that has left its loop has set connected to false.
C7_ExitedMeansNotConnected ==
    \A a \in AgentIds : lpc[a] = "done" => ~connected[a]

\* C8: once a TestPlayer's connected flag is false after having been true,
\* no step sets it to true again.
C8_ConnectedIsTerminal ==
    [][\A a \in AgentIds :
          (a < nextId /\ ~connected[a]) => ~connected'[a]]_vars

\* C8 witness: a player's flag went false, and create_player ran again for
\* the same name and its new player is connected.
C8_Witness ==
    \E a, b \in AgentIds :
        /\ a < b
        /\ b < nextId
        /\ aname[a] = aname[b]
        /\ ~connected[a]
        /\ connected[b]

\* C9: a send_message on a closed connection fails with the not-connected
\* error and writes nothing; one on an open connection writes one envelope.
C9_SendOnClosedIsNotConnected ==
    lastSend.result # "none" =>
        IF lastSend.open
        THEN lastSend.result = "sent"
        ELSE lastSend.result = "NotConnected"

\* C10: teardown never calls close() on a connection that is closed already.
C10_NoCloseOfClosed ==
    [][\A a \in AgentIds :
          (pc = "cleanup" /\ closeCalls'[a] > closeCalls[a]) =>
              conn[a] = "open"]_vars

\* C1: under SpecAutoPlay, for every turn prompt that auto_play handles on
\* an open connection, the one envelope written is chosen by the prompt's
\* fields alone, in this order: check if canCheck; else call if
\* callAmount <= 50; else raise with amount minRaiseToTotalBet if
\* callAmount <= 100 and minRaiseToTotalBet > 0; else fold.  In particular
\* canCheck false, callAmount 75, minRaiseToTotalBet 150 gives raise 150.
C1_FourBranchRule ==
    [][\A a \in AgentIds :
          (lpc[a] = "think" /\ lpc'[a] = "recv" /\ conn[a] = "open") =>
              LET can_check == Get(cur[a], "canCheck", FALSE)
                  call_amount == Get(cur[a], "callAmount", 0)
                  min_raise == Get(cur[a], "minRaiseToTotalBet", 0)
                  action == Last(sent'[a])
              IN  /\ Len(sent'[a]) = Len(sent[a]) + 1
                  /\ can_check => action = Envelope("check", EmptyDict)
                  /\ (~can_check /\ call_amount <= 50) =>
                         action = Envelope("call", EmptyDict)
                  /\ (~can_check /\ call_amount > 50 /\ call_amount <= 100
                        /\ min_raise > 0) =>
                         action = Envelope("raise", [amount |-> min_raise])
                  /\ (~can_check /\ call_amount > 50
                        /\ ~(call_amount <= 100 /\ min_raise > 0)) =>
                         action = Envelope("fold", EmptyDict)
                  /\ (~can_check /\ call_amount = 75 /\ min_raise = 150) =>
                         action = Envelope("raise", [amount |-> 150])
      ]_vars

\* C1 witness: Alice, prompted at her seat, has answered with raise 150
C1_Witness ==
    /\ lpc[2] = "recv"
    /\ cur[2] = EmptyDict
    /\ lastSend = [agent |-> 2, open |-> TRUE, result |-> "sent"]
    /\ Len(sent[2]) = 3
    /\ sent[2][3] = Envelope("raise", [amount |-> 150])

\* C3: under SpecSimple, player 1 of test_two_players (seat 1) writes a turn
\* action on ws1 in its receive loop only in response to an onmove prompt
\* whose seat is 1.
C3_ActsOnlyOnOwnSeat ==
    [][(spc = "listen" /\ Len(ssent'[1]) > Len(ssent[1])) =>
           /\ sinbox # << >>
           /\ MessageType(Head(sinbox)) = "onmove"
           /\ Get(MessageData(Head(sinbox)).f, "seat", None) = 1
      ]_vars

(***************************************************************************)
(* Claims C11 to C20.                                                      *)
(***************************************************************************)
\* what listen_for_messages(a) can do by itself: read a queued message,
\* end auto_play's sleep, notice the closure.  Its receive has no timeout.
ListenerOf(a) == ListenerReceive(a) \/ AutoPlaySend(a) \/ ListenerClosed(a)

\* C11: every wait for an inbound message is bounded: a listener waiting
\* on an open connection with nothing queued leaves the wait by itself
\* (on a timeout), without a message arriving or the connection closing.
C11_ListenerWaitIsBounded ==
    \A a \in AgentIds :
        (lpc[a] = "recv" /\ inbox[a] = << >> /\ conn[a] = "open") =>
            ENABLED ListenerOf(a)

(***************************************************************************)
(* test_manual_actions and what follows it.  The run starts in the state   *)
(* of run_all_tests in which the first three tests have passed and the     *)
(* server has done nothing yet; from here on the server deals with the     *)
(* connections of ManualAlice and ManualBob.                               *)
(***************************************************************************)
BeforeManualActions ==
    /\ pc = "ma_create1"
    /\ stack = << "test_manual_actions" >>
    /\ idx = 1
    /\ seat_counter = FIRST_FLOW_SEAT
    /\ loc1 = 2
    /\ loc2 = 3
    /\ players = [n \in Names |->
                     CASE n = "TestPlayer1" -> 1
                       [] n = "Alice" -> 2
                       [] n = "Bob" -> 3
                       [] OTHER -> 0]
    /\ game_state = Obj(EmptyDict)
    /\ last_payload = Obj(EmptyDict)
    /\ updates = 0
    /\ test_results =
          << [test |-> "test_basic_connection", ok |-> TRUE, err |-> ""],
             [test |-> "test_player_registration", ok |-> TRUE, err |-> ""],
             [test |-> "test_seat_management", ok |-> TRUE, err |-> ""] >>
    /\ nextId = 4
    /\ aname = [a \in AgentIds |->
                   CASE a = 1 -> "TestPlayer1"
                     [] a = 2 -> "Alice"
                     [] a = 3 -> "Bob"
                     [] OTHER -> ""]
    /\ seat = [a \in AgentIds |->
                  CASE a = 2 -> 1 [] a = 3 -> 2 [] OTHER -> None]
    /\ connected = [a \in AgentIds |-> a <= 3]
    /\ conn = [a \in AgentIds |->
                  CASE a = 1 -> "closedLocal"
                    [] a \in {2, 3} -> "open"
                    [] OTHER -> "none"]
    /\ inbox = [a \in AgentIds |-> << >>]
    /\ sent = [a \in AgentIds |->
                  CASE a = 2 -> << RegisterEnvelope(2), TakeSeatEnvelope(1) >>
                    [] a = 3 -> << RegisterEnvelope(3), TakeSeatEnvelope(2) >>
                    [] OTHER -> << >>]
    /\ closeCalls = [a \in AgentIds |-> IF a = 1 THEN 1 ELSE 0]
    /\ lpc = [a \in AgentIds |->
                 CASE a = 1 -> "done"
                   [] a \in {2, 3} -> "recv"
                   [] OTHER -> "none"]
    /\ lexit = [a \in AgentIds |-> IF a = 1 THEN "end" ELSE ""]
    /\ cur = [a \in AgentIds |-> EmptyDict]
    /\ lastSend = [agent |-> 3, open |-> TRUE, result |-> "sent"]
    /\ nEvents = 0
    /\ bpos = [a \in AgentIds |-> 0]

ManualInit == BeforeManualActions /\ SimpleInit

ManualAudience ==
    { a \in AgentIds : aname[a] \in {"ManualAlice", "ManualBob"} }

ManualServer ==
    \/ \E a \in ManualAudience, m \in ServerMessages : Deliver(a, m)
    \/ \E a \in ManualAudience, how \in {"closedOK", "closedErr"} :
          RemoteClose(a, how)

ManualOrchestrator ==
    \/ ManualCreate1 \/ ManualCreate2 \/ ManualRegister1 \/ ManualRegister2
    \/ ManualSeat1 \/ ManualSeat2 \/ ManualStart
    \/ ManualCheck \/ ManualRaise \/ ManualCall \/ ManualDone
    \/ FlowCreate \/ FlowRegister \/ FlowSeat \/ FlowStart \/ FlowDone
    \/ Cleanup

ManualNext == ManualOrchestrator \/ Listener \/ ManualServer

SpecManual == ManualInit /\ [][ManualNext]_vars

\* the TestPlayer whose send_message the orchestrator awaits at pc, in
\* test_manual_actions and in test_game_flow's register and start_game
AwaitedSend ==
    CASE pc \in {"ma_reg1", "ma_seat1", "ma_start", "ma_check", "ma_call",
                 "gf_reg"} -> loc1
      [] pc \in {"ma_reg2", "ma_seat2", "ma_raise"} -> loc2
      [] OTHER -> 0

\* C12: under SpecManual, a send of a scenario step that fails (the session
\* is closed, or the player is not connected) is recorded at once as one
\* failed entry of test_results for the step being run.
C12_FailureIsRecorded ==
    [][(/\ AwaitedSend # 0
        /\ << pc, idx >>' # << pc, idx >>
        /\ SendOutcome(AwaitedSend) # "sent") =>
           /\ Len(test_results') = Len(test_results) + 1
           /\ ~Last(test_results').ok
           /\ Last(test_results').test = Top
      ]_vars

\* player a has sent an envelope of type t
HasSent(a, t) == \E i \in 1..Len(sent[a]) : MessageType(sent[a][i]) = t

\* some player has sent startGame
GameStarted == \E a \in AgentIds : HasSent(a, "startGame")

\* C13: the scenario follows the lifecycle order registerPlayer, takeSeat,
\* startGame: once some player has sent startGame, no player sends a
\* registerPlayer or a takeSeat any more.
C13_NoSetupAfterStart ==
    [][\A a \in AgentIds :
          (GameStarted /\ Len(sent'[a]) > Len(sent[a])) =>
              MessageType(Last(sent'[a])) \notin {"registerPlayer", "takeSeat"}
      ]_vars

\* the connection of a fails, or the listener of a ends, in this step
FailsNow(a) ==
    \/ conn[a] = "open" /\ conn'[a] \in {"closedOK", "closedErr"}
    \/ lpc[a] \in {"recv", "think"} /\ lpc'[a] = "done"

\* C14: a transport failure or the end of a listener on one player's
\* connection leaves every other player's listener, queue, seat and
\* connected flag as they were, and a listener with a message queued can
\* always read it, whatever happened to the other connections.
C14_FailureIsLocal ==
    /\ [](\A b \in AgentIds :
             (lpc[b] = "recv" /\ inbox[b] # << >>) =>
                 ENABLED ListenerReceive(b))
    /\ [][\A a \in AgentIds :
             FailsNow(a) =>
                 \A b \in AgentIds \ {a} :
                     /\ lpc'[b] = lpc[b]
                     /\ lexit'[b] = lexit[b]
                     /\ inbox'[b] = inbox[b]
                     /\ seat'[b] = seat[b]
                     /\ connected'[b] = connected[b]
         ]_vars

\* C14 witness: one player's listener has ended on ConnectionClosed while
\* a seated player on an open connection is handling a turn prompt.
C14_Witness ==
    \E a, b \in AgentIds :
        /\ a # b
        /\ lpc[a] = "done"
        /\ lexit[a] = "ConnectionClosed"
        /\ ~connected[a]
        /\ conn[b] = "open"
        /\ connected[b]
        /\ seat[b] # None
        /\ lpc[b] = "think"

\* C15: a player's seat starts as None and is set at most once: once it is
\* a seat number no step changes it.
C15_SeatSetOnce ==
    /\ [](\A a \in AgentIds : a >= nextId => seat[a] = None)
    /\ [][\A a \in AgentIds : seat[a] # None => seat'[a] = seat[a]]_vars

\* C15 witness: the run is over, test_game_flow's seating loop has seated a
\* player at its first seat, and the players seated before keep their seats.
C15_Witness ==
    /\ pc = "done"
    /\ \E a \in AgentIds : seat[a] = FIRST_FLOW_SEAT
    /\ players["Alice"] # 0
    /\ seat[players["Alice"]] = 1

(***************************************************************************)
(* A broadcast to two seated players.  The run starts in the state of      *)
(* run_all_tests in which test_seat_management has seated Alice at 1 and   *)
(* Bob at 2 and sleeps; the server then sends the same messages, in the    *)
(* same order, on both connections.                                        *)
(***************************************************************************)
Broadcasts ==
    << JsonObject([messageType |-> "onmove",
                   data |-> Obj([seat |-> 2, canCheck |-> TRUE,
                                 callAmount |-> 0,
                                 minRaiseToTotalBet |-> 0])]),
       JsonObject([messageType |-> "gameState", data |-> Obj(SnapshotA)]),
       JsonObject([messageType |-> "gameState", data |-> Obj(SnapshotB)]),
       JsonObject([messageType |-> "onmove",
                   data |-> Obj([seat |-> 1, canCheck |-> FALSE,
                                 callAmount |-> 75,
                                 minRaiseToTotalBet |-> 150])]),
       JsonObject([messageType |-> "handWinnings",
                   data |-> Obj([pot |-> 30])]) >>

BeforeBroadcast ==
    /\ pc = "sm_done"
    /\ stack = << "test_seat_management" >>
    /\ idx = 1
    /\ seat_counter = FIRST_FLOW_SEAT
    /\ loc1 = 2
    /\ loc2 = 3
    /\ players = [n \in Names |->
                     CASE n = "TestPlayer1" -> 1
                       [] n = "Alice" -> 2
                       [] n = "Bob" -> 3
                       [] OTHER -> 0]
    /\ game_state = Obj(EmptyDict)
    /\ last_payload = Obj(EmptyDict)
    /\ updates = 0
    /\ test_results =
          << [test |-> "test_basic_connection", ok |-> TRUE, err |-> ""],
             [test |-> "test_player_registration", ok |-> TRUE, err |-> ""] >>
    /\ nextId = 4
    /\ aname = [a \in AgentIds |->
                   CASE a = 1 -> "TestPlayer1"
                     [] a = 2 -> "Alice"
                     [] a = 3 -> "Bob"
                     [] OTHER -> ""]
    /\ seat = [a \in AgentIds |->
                  CASE a = 2 -> 1 [] a = 3 -> 2 [] OTHER -> None]
    /\ connected = [a \in AgentIds |-> a <= 3]
    /\ conn = [a \in AgentIds |->
                  CASE a = 1 -> "closedLocal"
                    [] a \in {2, 3} -> "open"
                    [] OTHER -> "none"]
    /\ inbox = [a \in AgentIds |-> << >>]
    /\ sent = [a \in AgentIds |->
                  CASE a = 2 -> << RegisterEnvelope(2), TakeSeatEnvelope(1) >>
                    [] a = 3 -> << RegisterEnvelope(3), TakeSeatEnvelope(2) >>
                    [] OTHER -> << >>]
    /\ closeCalls = [a \in AgentIds |-> IF a = 1 THEN 1 ELSE 0]
    /\ lpc = [a \in AgentIds |->
                 CASE a = 1 -> "done"
                   [] a \in {2, 3} -> "recv"
                   [] OTHER -> "none"]
    /\ lexit = [a \in AgentIds |-> IF a = 1 THEN "end" ELSE ""]
    /\ cur = [a \in AgentIds |-> EmptyDict]
    /\ lastSend = [agent |-> 3, open |-> TRUE, result |-> "sent"]
    /\ nEvents = 0
    /\ bpos = [a \in AgentIds |-> 0]

BroadcastInit == BeforeBroadcast /\ SimpleInit

BroadcastAudience == { a \in AgentIds : seat[a] # None /\ conn[a] = "open" }

\* the next message of the broadcast arrives on the connection of a
BroadcastTo(a) ==
    /\ bpos[a] < Len(Broadcasts)
    /\ bpos' = [bpos EXCEPT ![a] = @ + 1]
    /\ Arrive(a, Broadcasts[bpos[a] + 1])
    /\ UNCHANGED << orchVars, players, test_results, nextId, aname, seat,
                    connected, conn, sent, closeCalls, lastSend, nEvents,
                    simpleVars >>

BroadcastNext ==
    \/ \E a \in BroadcastAudience : BroadcastTo(a)
    \/ \E a \in AgentIds : ListenerReceive(a)
    \/ \E a \in AgentIds : AutoPlaySend(a)

SpecBroadcast == BroadcastInit /\ [][BroadcastNext]_vars

\* how many messages of the broadcast the listener of a has handled
Handled(a) == bpos[a] - Len(inbox[a])

\* C16: under SpecBroadcast, whenever a listener handles a gameState
\* message of the broadcast the snapshot becomes that message's data,
\* whatever the other listener has stored before: there is no ordering
\* check.
C16_NoOrderingCheck ==
    [][\A a \in AgentIds :
          (/\ Handled(a)' = Handled(a) + 1
           /\ IsGameState(Broadcasts[Handled(a)'])) =>
              game_state' = MessageData(Broadcasts[Handled(a)'])
      ]_vars

\* C16 witness: Alice's listener has handled the broadcast up to the later
\* snapshot; Bob's, delayed by auto_play, has just handled the earlier
\* snapshot and not yet the later one: the snapshot is the older one.
C16_Witness ==
    /\ Handled(2) >= 3
    /\ Handled(3) = 2
    /\ inbox[3] # << >>
    /\ Head(inbox[3]) = Broadcasts[3]
    /\ game_state = Obj(SnapshotA)
    /\ updates = 3

\* the listener of a reads a queued message of type t in this step
ReadsQueued(a, t) ==
    /\ lpc[a] = "recv"
    /\ inbox[a] # << >>
    /\ Head(inbox[a]).json = "object"
    /\ MessageType(Head(inbox[a])) = t
    /\ inbox'[a] = Tail(inbox[a])

\* C17: the snapshot changes only in a step that handles a gameState
\* message: no other message and no step of the orchestrator changes it.
\* A handled handWinnings message moreover writes nothing to any
\* connection and changes no player's seat or connected flag, and the
\* listener goes on to its next receive.
C17_SnapshotFrame ==
    [][/\ game_state' # game_state => updates' = updates + 1
       /\ << pc, idx, stack >>' # << pc, idx, stack >> =>
              game_state' = game_state
       /\ \A a \in AgentIds :
             /\ \A t \in {"onmove", "handWinnings", "chat", ""} :
                   ReadsQueued(a, t) => game_state' = game_state
             /\ ReadsQueued(a, "handWinnings") =>
                   /\ sent' = sent
                   /\ seat' = seat
                   /\ connected' = connected
                   /\ lpc'[a] = "recv"
       /\ nEvents' # nEvents =>
              /\ sent' = sent
              /\ seat' = seat
              /\ connected' = connected
      ]_vars

\* C17 witness: run_all_tests is over, cleanup included, players were
\* registered and seated in test_game_flow, and the snapshot is still the
\* data of the one gameState message handled.
C17_Witness ==
    /\ pc = "done"
    /\ updates = 1
    /\ game_state = Obj(SnapshotA)
    /\ \E a \in AgentIds : seat[a] = FIRST_FLOW_SEAT /\ conn[a] = "closedLocal"

(***************************************************************************)
(* Teardown with listeners at work.  The run starts in the state of        *)
(* run_all_tests in which the first three tests have passed, the server    *)
(* has refused the first connection of test_manual_actions and the first   *)
(* of test_game_flow, and cleanup begins; Alice and Bob are seated and     *)
(* their listeners run.  The server goes on with its broadcast and may     *)
(* close either connection.  Scheduling is asyncio's: a listener task      *)
(* that can run (a message is queued, the connection is closed, or         *)
(* auto_play's sleep is over) is eventually run by the event loop.         *)
(***************************************************************************)
BeforeCleanup ==
    /\ pc = "cleanup"
    /\ stack = << >>
    /\ idx = 1
    /\ seat_counter = FIRST_FLOW_SEAT
    /\ loc1 = 2
    /\ loc2 = 3
    /\ players = [n \in Names |->
                     CASE n = "TestPlayer1" -> 1
                       [] n = "Alice" -> 2
                       [] n = "Bob" -> 3
                       [] OTHER -> 0]
    /\ game_state = Obj(EmptyDict)
    /\ last_payload = Obj(EmptyDict)
    /\ updates = 0
    /\ test_results =
          << [test |-> "test_basic_connection", ok |-> TRUE, err |-> ""],
             [test |-> "test_player_registration", ok |-> TRUE, err |-> ""],
             [test |-> "test_seat_management", ok |-> TRUE, err |-> ""],
             [test |-> "test_manual_actions", ok |-> FALSE,
              err |-> "ConnectionRefused"],
             [test |-> "test_game_flow", ok |-> FALSE,
              err |-> "ConnectionRefused"] >>
    /\ nextId = 4
    /\ aname = [a \in AgentIds |->
                   CASE a = 1 -> "TestPlayer1"
                     [] a = 2 -> "Alice"
                     [] a = 3 -> "Bob"
                     [] OTHER -> ""]
    /\ seat = [a \in AgentIds |->
                  CASE a = 2 -> 1 [] a = 3 -> 2 [] OTHER -> None]
    /\ connected = [a \in AgentIds |-> a <= 3]
    /\ conn = [a \in AgentIds |->
                  CASE a = 1 -> "closedLocal"
                    [] a \in {2, 3} -> "open"
                    [] OTHER -> "none"]
    /\ inbox = [a \in AgentIds |-> << >>]
    /\ sent = [a \in AgentIds |->
                  CASE a = 2 -> << RegisterEnvelope(2), TakeSeatEnvelope(1) >>
                    [] a = 3 -> << RegisterEnvelope(3), TakeSeatEnvelope(2) >>
                    [] OTHER -> << >>]
    /\ closeCalls = [a \in AgentIds |-> IF a = 1 THEN 1 ELSE 0]
    /\ lpc = [a \in AgentIds |->
                 CASE a = 1 -> "done"
                   [] a \in {2, 3} -> "recv"
                   [] OTHER -> "none"]
    /\ lexit = [a \in AgentIds |-> IF a = 1 THEN "end" ELSE ""]
    /\ cur = [a \in AgentIds |-> EmptyDict]
    /\ lastSend = [agent |-> 3, open |-> TRUE, result |-> "sent"]
    /\ nEvents = 2
    /\ bpos = [a \in AgentIds |-> 0]

TeardownInit == BeforeCleanup /\ SimpleInit

\* the server closes the connection of a seated player
BroadcastClose(a, how) ==
    /\ conn[a] = "open"
    /\ conn' = [conn EXCEPT ![a] = how]
    /\ UNCHANGED << orchVars, harnessVars, nextId, aname, seat, connected,
                    inbox, sent, closeCalls, listenerVars, lastSend, envVars,
                    simpleVars >>

TeardownNext ==
    \/ Cleanup
    \/ \E a \in BroadcastAudience : BroadcastTo(a)
    \/ \E a \in BroadcastAudience, how \in {"closedOK", "closedErr"} :
          BroadcastClose(a, how)
    \/ \E a \in AgentIds : ListenerReceive(a)
    \/ \E a \in AgentIds : AutoPlaySend(a)
    \/ \E a \in AgentIds : ListenerClosed(a)

SpecTeardown ==
    /\ TeardownInit
    /\ [][TeardownNext]_vars
    /\ \A a \in AgentIds : WF_vars(ListenerOf(a))

\* the connection of a was opened and is closed now, by either end
Closed(a) == conn[a] \in {"closedLocal", "closedOK", "closedErr"}

\* C18: under SpecTeardown, once a player's connection is closed its listener
\* eventually leaves its loop, whether it was waiting in its receive or
\* inside auto_play's delay.
C18_ClosedListenerExits ==
    \A a \in AgentIds : Closed(a) ~> (lpc[a] = "done")

\* C18 witness: a connection was closed by the harness while its listener
\* was inside auto_play; the send failed on ConnectionClosed and the
\* listener has ended.
C18_Witness ==
    \E a \in AgentIds :
        /\ conn[a] = "closedLocal"
        /\ lpc[a] = "done"
        /\ lexit[a] = "ConnectionClosed"

\* C19: at any point of run_all_tests no two connected players hold the
\* same seat number.
C19_SeatsAreDistinct ==
    \A a, b \in AgentIds :
        (a # b /\ connected[a] /\ connected[b] /\ seat[a] # None) =>
            seat[a] # seat[b]

\* the player whose take_seat the orchestrator is about to call (0: none)
\* and the seat it asks for
TakeSeatPlayer ==
    CASE pc = "sm_seat1" -> players["Alice"]
      [] pc = "sm_seat2" -> players["Bob"]
      [] pc = "ma_seat1" -> loc1
      [] pc = "ma_seat2" -> loc2
      [] pc = "gf_seat" ->
            LET p == players[players_to_create[idx]]
            IN  IF p # 0 /\ seat[p] = None THEN p ELSE 0
      [] OTHER -> 0

TakeSeatNumber ==
    CASE pc \in {"sm_seat1", "ma_seat1"} -> 1
      [] pc \in {"sm_seat2", "ma_seat2"} -> 2
      [] OTHER -> seat_counter

\* C20: take_seat on a player whose connected flag is true writes exactly
\* one takeSeat envelope with the requested seat and records that seat;
\* on a player whose flag is false it fails, writes nothing and leaves the
\* seat as it was.
C20_TakeSeatEffect ==
    [][(TakeSeatPlayer # 0 /\ << pc, idx, stack >>' # << pc, idx, stack >>) =>
          LET p == TakeSeatPlayer
              s == TakeSeatNumber
          IN  IF connected[p]
              THEN /\ sent'[p] = Append(sent[p], TakeSeatEnvelope(s))
                   /\ seat'[p] = s
              ELSE /\ sent' = sent
                   /\ seat' = seat
                   /\ Len(test_results') = Len(test_results) + 1
                   /\ ~Last(test_results').ok
      ]_vars

====
